---- MODULE Spec2Model ----
(***************************************************************************)
(* The request pipeline of main.go: helloHandler behind the ServeMux,      *)
(* wrapped by the accessLog and recovery middlewares, serving the requests *)
(* a client sends one after the other on its connection.  Any call made    *)
(* below the recovery middleware may panic; json.Marshal may fail where    *)
(* the code provides for it.                                               *)
(*                                                                         *)
(* Strings are sequences of tokens.  A marshalled JSON document is a       *)
(* function from the keys present in it to their values; a []byte is the   *)
(* sequence of the documents in it (<<>> is the nil/empty slice).          *)
(***************************************************************************)
EXTENDS Integers, Sequences, FiniteSets, TLC

\* ------------------------------------------------------------- bounds
\* Number of requests the client sends, one after the other, in one run.
NumRequests == 2

Reqs == 1..NumRequests

\* ------------------------------------------------------------- inputs
Methods == {"GET", "POST"}
Paths == {"/hello", "/other"}
\* Values time.Now().Format(time.RFC1123Z) may return.
TimeStamps == {"Mon, 02 Jan 2006 15:04:05 -0700"}
\* Descriptions of the runtime faults (panics) a call below the recovery
\* guard may raise; the Go runtime's descriptions are never empty.
FaultDescs == {"runtime error: integer divide by zero"}

\* ------------------------------------------------------------- net/http
StatusOK == 200
StatusNotFound == 404
StatusInternalServerError == 500
StatusNotImplemented == 501

\* A Go error (or a recovered panic value): nil, or a value with a text.
NilErr == [nil |-> TRUE, msg |-> <<>>]
NewErr(msg) == [nil |-> FALSE, msg |-> msg]

\* The http.ResponseWriter of one request: status is the status line sent
\* to the client (0: not sent yet), body the bytes sent, calls the history
\* of the calls made on it, each with the frame that made it.
NewWriter == [status |-> 0, body |-> <<>>, calls |-> <<>>]

\* w.WriteHeader(code): sends the status line, once; a later call is
\* superfluous and changes nothing.
WriteHeader(w, who, code) ==
    [w EXCEPT !.status = IF @ = 0 THEN code ELSE @,
              !.calls = Append(@, [by |-> who, op |-> "WriteHeader", code |-> code, bytes |-> <<>>])]

\* w.Write(b): sends the status line 200 first when none was sent, then
\* appends b to the body.
Write(w, who, b) ==
    [w EXCEPT !.status = IF @ = 0 THEN StatusOK ELSE @,
              !.body = @ \o b,
              !.calls = Append(@, [by |-> who, op |-> "Write", code |-> 0, bytes |-> b])]

\* ------------------------------------------------------------- response
\* type response struct { Data, Error string }, both `omitempty`.
response(Data, Error) == [Data |-> Data, Error |-> Error]

\* Mutant of JsonDoc: the struct tags without `omitempty`.
JsonDocNoOmitEmpty(v) ==
    [k \in {"data", "error"} |-> IF k = "data" THEN v.Data ELSE v.Error]

JsonDoc(v) ==
    LET val(k) == IF k = "data" THEN v.Data ELSE v.Error
    IN  [k \in {f \in {"data", "error"} : val(f) # <<>>} |-> val(k)]

\* json.Marshal(v): the bytes and a nil error, or no bytes and an error.
Marshal(v, fails) ==
    IF fails THEN [data |-> <<>>, err |-> NewErr(<<"json: error calling MarshalJSON">>)]
    ELSE [data |-> <<JsonDoc(v)>>, err |-> NilErr]

\* ------------------------------------------------------------- fmt
helloMsgTmpl == <<"Hello, from service. Today is ", "%s">>

\* fmt.Sprintf with one verb: the verb's token replaced by the argument.
Sprintf(tmpl, arg) ==
    LET RECURSIVE subst(_)
        subst(s) == IF s = <<>> THEN <<>>
                    ELSE (IF Head(s) \in {"%s", "%q", "%v"} THEN arg ELSE <<Head(s)>>)
                         \o subst(Tail(s))
    IN  subst(tmpl)

\* %q: the argument as a double-quoted string.
Quote(s) == <<"\"", s, "\"">>

\* The text of line 52 (in Russian in the source: "method %q is not
\* supported"), transliterated.
notSupportedTmpl == <<"metod ", "%q", " ne podderzhivaetsya">>

\* ------------------------------------------------------------- state
\* conn[r]: the goroutine serving request r and everything local to it.
\*   frame, phase  where the goroutine is: the function it runs and the
\*                 point in it ("idle": not accepted yet; "server"/"done":
\*                 handler.ServeHTTP has returned to net/http)
\*   method, path  r.Method, r.URL.Path
\*   err, status, data   helloHandler's local variables
\*   panic         the panic being propagated (nil: none)
\*   w             the request's http.ResponseWriter
\*   trace         history: the events <<frame, event>> of the request, in order
\*   fault         history: the description of the last panic raised
\*   escaped       the panic left the handler chain (net/http then closes
\*                 the connection)
\*   afterFault    history: a faulted request had completed when this one
\*                 was accepted
\* logSink: the lines written through the process-wide logger, in order.
VARIABLES conn, logSink

vars == <<conn, logSink>>

IdleConn ==
    [frame |-> "idle", phase |-> "idle", method |-> "", path |-> "",
     err |-> NilErr, status |-> 0, data |-> <<>>, panic |-> NilErr,
     w |-> NewWriter, trace |-> <<>>, fault |-> <<>>, escaped |-> FALSE,
     afterFault |-> FALSE]

Happened(c, e) == \E i \in DOMAIN c.trace : c.trace[i] = e
\* A call made for the request panicked.
Faulted(c) == c.fault # <<>>
Done(c) == c.frame = "server"

\* ------------------------------------------------------------- main
\* Mutant of handler: the middlewares wrapped in the other order.
handlerAccessLogOutside == <<"accessLog", "recovery", "mux">>

\* The chain main builds, outermost first: handler := accessLog(mux);
\* handler = recovery(handler).
handler == <<"recovery", "accessLog", "mux">>

Position(f) == CHOOSE i \in DOMAIN handler : handler[i] = f
\* The `next` a middleware was built around.
Callee(f) == handler[Position(f) + 1]
\* The frame that called f.ServeHTTP ("server": net/http itself).
Caller(f) == IF Position(f) = 1 THEN "server" ELSE handler[Position(f) - 1]

\* Control leaves frame f, normally or with c.panic propagating.
Return(c, f) ==
    IF Caller(f) = "server"
    THEN [c EXCEPT !.frame = "server", !.phase = "done", !.escaped = ~c.panic.nil]
    ELSE [c EXCEPT !.frame = Caller(f), !.phase = "return"]

Event(c, f, e) == [c EXCEPT !.trace = Append(@, <<f, e>>)]

\* f.ServeHTTP(w, r) is called.
Call(c, f) == Event([c EXCEPT !.frame = f, !.phase = "enter"], f, "enter")

\* ------------------------------------------------------------- helloHandler
\* Lines 15-36: the locals are zero and the deferred function is registered.
helloHandlerEnter(c) ==
    Event([c EXCEPT !.err = NilErr, !.status = 0, !.data = <<>>, !.phase = "switch"],
          "helloHandler", "defer")

\* Mutant of helloHandlerSwitch: the error text built without the method.
helloHandlerSwitchNoMethod(c, currentTime, fails) ==
    IF c.method = "GET"
    THEN LET m == Marshal(response(Sprintf(helloMsgTmpl, <<currentTime>>), <<>>), fails)
             c1 == IF fails THEN Event(c, "helloHandler", "marshal failed") ELSE c
         IN  [c1 EXCEPT !.data = m.data, !.err = m.err,
                        !.status = IF m.err.nil THEN @ ELSE StatusInternalServerError,
                        !.phase = "deferred"]
    ELSE [c EXCEPT !.err = NewErr(<<"metod ne podderzhivaetsya">>),
                   !.status = StatusNotImplemented,
                   !.phase = "deferred"]

\* Lines 39-55: the method switch.
helloHandlerSwitch(c, currentTime, fails) ==
    IF c.method = "GET"
    THEN LET m == Marshal(response(Sprintf(helloMsgTmpl, <<currentTime>>), <<>>), fails)
             c1 == IF fails THEN Event(c, "helloHandler", "marshal failed") ELSE c
         IN  [c1 EXCEPT !.data = m.data, !.err = m.err,
                        !.status = IF m.err.nil THEN @ ELSE StatusInternalServerError,
                        !.phase = "deferred"]
    ELSE [c EXCEPT !.err = NewErr(Sprintf(notSupportedTmpl, Quote(c.method))),
                   !.status = StatusNotImplemented,
                   !.phase = "deferred"]

\* Mutant of helloHandlerDeferred: the success path sends the wrong status.
helloHandlerDeferredWrongStatus(c, fails) ==
    IF ~c.err.nil
    THEN LET m == Marshal(response(<<>>, c.err.msg), fails)
             c1 == IF fails THEN Event(c, "helloHandler", "error marshal failed") ELSE c
         IN  [c1 EXCEPT !.data = m.data, !.err = m.err,
                        !.status = IF m.err.nil THEN @ ELSE StatusInternalServerError,
                        !.phase = "write"]
    ELSE [c EXCEPT !.w = WriteHeader(@, "helloHandler", StatusInternalServerError),
                   !.phase = "write"]

\* Mutant of helloHandlerDeferred: the error path sends the status variable.
helloHandlerDeferredSendsStatus(c, fails) ==
    IF ~c.err.nil
    THEN LET m == Marshal(response(<<>>, c.err.msg), fails)
             c1 == IF fails THEN Event(c, "helloHandler", "error marshal failed") ELSE c
             st == IF m.err.nil THEN c.status ELSE StatusInternalServerError
         IN  [c1 EXCEPT !.data = m.data, !.err = m.err, !.status = st,
                        !.w = WriteHeader(@, "helloHandler", st),
                        !.phase = "write"]
    ELSE [c EXCEPT !.w = WriteHeader(@, "helloHandler", StatusOK), !.phase = "write"]

\* Lines 21-28 and 34: the deferred function up to its w.Write.
helloHandlerDeferred(c, fails) ==
    IF ~c.err.nil
    THEN LET m == Marshal(response(<<>>, c.err.msg), fails)
             c1 == IF fails THEN Event(c, "helloHandler", "error marshal failed") ELSE c
         IN  [c1 EXCEPT !.data = m.data, !.err = m.err,
                        !.status = IF m.err.nil THEN @ ELSE StatusInternalServerError,
                        !.phase = "write"]
    ELSE [c EXCEPT !.w = WriteHeader(@, "helloHandler", StatusOK), !.phase = "write"]

\* Lines 29-30 and 35: w.Write(data); the function returns.
helloHandlerWrite(c) ==
    Return(Event([c EXCEPT !.w = Write(@, "helloHandler", c.data)], "helloHandler", "exit"),
           "mux")

\* ------------------------------------------------------------- ServeMux
notFoundBody == <<[text |-> <<"404 page not found">>]>>

\* mux.ServeHTTP with the one pattern "/hello" registered (line 114); any
\* other path gets http.NotFound.
muxServeHTTP(c) ==
    IF c.path = "/hello"
    THEN Call(c, "helloHandler")
    ELSE Return([c EXCEPT !.w = Write(WriteHeader(@, "mux", StatusNotFound), "mux", notFoundBody)],
                "mux")

\* ------------------------------------------------------------- recovery
\* Lines 61-63 and 82: the guard is deferred, then next.ServeHTTP is called.
recoveryEnter(c) == Call(Event(c, "recovery", "defer"), Callee("recovery"))

\* Mutant of Recover: the deferred function without its recover() call.
RecoverNothing(c) == c

\* recover(): the panic value, which stops propagating.
Recover(c) == [c EXCEPT !.panic = NilErr]

\* Mutant of recoveryDeferred: the response is written without the test of
\* recover()'s result.
recoveryDeferredAlways(c, fails) ==
    LET err == c.panic
        c1 == Event(Recover(c), "recovery", "deferred")
        data == Marshal(response(<<>>, Sprintf(<<"%v">>, err.msg)), fails).data
        c2 == IF fails THEN Event(c1, "recovery", "marshal failed") ELSE c1
    IN  [c2 EXCEPT !.w = Write(WriteHeader(@, "recovery", StatusInternalServerError),
                               "recovery", data)]

\* Lines 63-80: the deferred function.
recoveryDeferred(c, fails) ==
    LET err == c.panic
        c1 == Event(Recover(c), "recovery", "deferred")
    IN  IF ~err.nil
        THEN LET data == Marshal(response(<<>>, Sprintf(<<"%v">>, err.msg)), fails).data
                 c2 == IF fails THEN Event(c1, "recovery", "marshal failed") ELSE c1
             IN  [c2 EXCEPT !.w = Write(WriteHeader(@, "recovery", StatusInternalServerError),
                                        "recovery", data)]
        ELSE c1

\* Lines 74-78: the log line of the deferred function.
recoveryLog(c, r) ==
    IF ~c.panic.nil
    THEN <<[line |-> "panic", req |-> r, method |-> c.method, url |-> c.path]>>
    ELSE <<>>

\* ------------------------------------------------------------- accessLog
\* Lines 89-92: next.ServeHTTP is called.
accessLogEnter(c) == Call(c, Callee("accessLog"))

\* Lines 94-99, reached only when next.ServeHTTP returned: accessLog defers
\* nothing, so a panic passes through its frame.
accessLogReturn(c) ==
    IF c.panic.nil THEN Event(c, "accessLog", "exit") ELSE Event(c, "accessLog", "unwind")

\* Mutant of accessLogLine: the line is logged from a deferred function,
\* so also while a panic propagates.
accessLogLineDeferred(c, r) ==
    <<[line |-> "access_log", req |-> r, method |-> c.method, url |-> c.path]>>

accessLogLine(c, r) ==
    IF c.panic.nil
    THEN <<[line |-> "access_log", req |-> r, method |-> c.method, url |-> c.path]>>
    ELSE <<>>

\* ------------------------------------------------------------- faults
\* A runtime fault in frame f at its current point: the panic starts and
\* the frame's deferred functions that are registered and have not run yet
\* run (helloHandler's, while its body executes); the panic then propagates
\* to the caller.
Panic(c, desc) ==
    LET c1 == Event([c EXCEPT !.panic = NewErr(<<desc>>), !.fault = <<desc>>], c.frame, "panic")
    IN  IF c.frame = "helloHandler"
        THEN (IF c.phase = "switch" THEN [c1 EXCEPT !.phase = "deferred"] ELSE Return(c1, "mux"))
        ELSE IF c.frame = "accessLog"
        THEN Return(Event(c1, "accessLog", "unwind"), "accessLog")
        ELSE Return(c1, c.frame)

\* The frames whose calls may fault: everything the recovery middleware wraps.
FaultFrames == {"accessLog", "mux", "helloHandler"}

\* ------------------------------------------------------------- actions
Init ==
    /\ conn = [r \in Reqs |-> IdleConn]
    /\ logSink = <<>>

\* The client's connection is served by one goroutine of net/http, which
\* reads request r once the requests before it are answered and calls
\* handler.ServeHTTP; a panic that leaves the chain closes the connection.
Accept(r) ==
    /\ conn[r].frame = "idle"
    /\ \A q \in 1..(r - 1) : Done(conn[q]) /\ ~conn[q].escaped
    /\ \E m \in Methods, p \in Paths :
         conn' = [conn EXCEPT ![r] =
                    Call([IdleConn EXCEPT !.method = m, !.path = p,
                             !.afterFault = \E q \in Reqs : Done(conn[q]) /\ Faulted(conn[q])],
                         handler[1])]
    /\ UNCHANGED logSink

RecoveryEnter(r) ==
    /\ conn[r].frame = "recovery" /\ conn[r].phase = "enter"
    /\ conn' = [conn EXCEPT ![r] = recoveryEnter(@)]
    /\ UNCHANGED logSink

RecoveryDeferred(r) ==
    /\ conn[r].frame = "recovery" /\ conn[r].phase = "return"
    /\ \E fails \in BOOLEAN :
         conn' = [conn EXCEPT ![r] = Return(recoveryDeferred(@, fails), "recovery")]
    /\ logSink' = logSink \o recoveryLog(conn[r], r)

\* Mutant of AccessLogEnter: the line is logged before next.ServeHTTP.
AccessLogEnterLogging(r) ==
    /\ conn[r].frame = "accessLog" /\ conn[r].phase = "enter"
    /\ conn' = [conn EXCEPT ![r] = accessLogEnter(@)]
    /\ logSink' = logSink \o accessLogLine(conn[r], r)

AccessLogEnter(r) ==
    /\ conn[r].frame = "accessLog" /\ conn[r].phase = "enter"
    /\ conn' = [conn EXCEPT ![r] = accessLogEnter(@)]
    /\ UNCHANGED logSink

AccessLogReturn(r) ==
    /\ conn[r].frame = "accessLog" /\ conn[r].phase = "return"
    /\ conn' = [conn EXCEPT ![r] = Return(accessLogReturn(@), "accessLog")]
    /\ logSink' = logSink \o accessLogLine(conn[r], r)

MuxServeHTTP(r) ==
    /\ conn[r].frame = "mux" /\ conn[r].phase = "enter"
    /\ conn' = [conn EXCEPT ![r] = muxServeHTTP(@)]
    /\ UNCHANGED logSink

HelloHandlerEnter(r) ==
    /\ conn[r].frame = "helloHandler" /\ conn[r].phase = "enter"
    /\ conn' = [conn EXCEPT ![r] = helloHandlerEnter(@)]
    /\ UNCHANGED logSink

HelloHandlerSwitch(r) ==
    /\ conn[r].frame = "helloHandler" /\ conn[r].phase = "switch"
    /\ \E t \in TimeStamps, fails \in BOOLEAN :
         conn' = [conn EXCEPT ![r] = helloHandlerSwitch(@, t, fails)]
    /\ UNCHANGED logSink

HelloHandlerDeferred(r) ==
    /\ conn[r].frame = "helloHandler" /\ conn[r].phase = "deferred"
    /\ \E fails \in BOOLEAN :
         conn' = [conn EXCEPT ![r] = helloHandlerDeferred(@, fails)]
    /\ UNCHANGED logSink

\* Mutant of HelloHandlerWrite: `data` declared at package level, so that
\* the bytes written are those the goroutine that assigned it last left.
HelloHandlerWriteShared(r) ==
    /\ conn[r].frame = "helloHandler" /\ conn[r].phase = "write"
    /\ \E q \in Reqs :
         /\ conn[q].frame # "idle"
         /\ conn' = [conn EXCEPT ![r] = helloHandlerWrite([@ EXCEPT !.data = conn[q].data])]
    /\ UNCHANGED logSink

HelloHandlerWrite(r) ==
    /\ conn[r].frame = "helloHandler" /\ conn[r].phase = "write"
    /\ conn' = [conn EXCEPT ![r] = helloHandlerWrite(@)]
    /\ UNCHANGED logSink

\* A call made at the current point of request r panics instead of
\* returning.  A frame that is only propagating a panic makes no call.
Fault(r) ==
    /\ conn[r].frame \in FaultFrames
    /\ ~(conn[r].phase = "return" /\ ~conn[r].panic.nil)
    /\ \E desc \in FaultDescs : conn' = [conn EXCEPT ![r] = Panic(@, desc)]
    /\ UNCHANGED logSink

Next ==
    \E r \in Reqs :
        \/ Accept(r)
        \/ RecoveryEnter(r)
        \/ RecoveryDeferred(r)
        \/ AccessLogEnter(r)
        \/ AccessLogReturn(r)
        \/ MuxServeHTTP(r)
        \/ HelloHandlerEnter(r)
        \/ HelloHandlerSwitch(r)
        \/ HelloHandlerDeferred(r)
        \/ HelloHandlerWrite(r)
        \/ Fault(r)

Spec == Init /\ [][Next]_vars

\* ------------------------------------------------------------- concurrency
\* net/http serves every connection on a goroutine of its own: request r,
\* on its own connection, is accepted while earlier requests are still
\* being handled (requests are numbered in the order they are accepted).
AcceptConcurrent(r) ==
    /\ conn[r].frame = "idle"
    /\ \A q \in 1..(r - 1) : conn[q].frame # "idle"
    /\ \E m \in Methods, p \in Paths :
         conn' = [conn EXCEPT ![r] =
                    Call([IdleConn EXCEPT !.method = m, !.path = p], handler[1])]
    /\ UNCHANGED logSink

\* A call of request r panics while the other goroutines run; the calls of
\* one request at a time are taken to fault.
FaultConcurrent(r) ==
    /\ \A q \in Reqs \ {r} : ~Faulted(conn[q])
    /\ Fault(r)

\* The steps of the goroutines, interleaved in any order.
NextConc ==
    \E r \in Reqs :
        \/ AcceptConcurrent(r)
        \/ RecoveryEnter(r)
        \/ RecoveryDeferred(r)
        \/ AccessLogEnter(r)
        \/ AccessLogReturn(r)
        \/ MuxServeHTTP(r)
        \/ HelloHandlerEnter(r)
        \/ HelloHandlerSwitch(r)
        \/ HelloHandlerDeferred(r)
        \/ HelloHandlerWrite(r)
        \/ FaultConcurrent(r)

SpecConc == Init /\ [][NextConc]_vars

\* ------------------------------------------------------------- vocabulary
Body(c) == c.w.body
Contains(s, tok) == \E i \in DOMAIN s : s[i] = tok
\* The JSON document d is an envelope with field k populated and no other.
OnlyField(d, k) == DOMAIN d = {k} /\ d[k] # <<>>
\* Request c was to the registered route, with method GET or another.
HelloGet(c) == c.path = "/hello" /\ c.method = "GET"
HelloOther(c) == c.path = "/hello" /\ c.method # "GET"
\* The places of event <<f, e>> in the request's trace.
At(c, f, e) == {i \in DOMAIN c.trace : c.trace[i] = <<f, e>>}
\* The log lines of kind k the request r produced.
Lines(r, k) == {i \in DOMAIN logSink : logSink[i].req = r /\ logSink[i].line = k}
\* The request has an access_log line, a panic line.
Logged(r) == \E i \in DOMAIN logSink : logSink[i].req = r /\ logSink[i].line = "access_log"
Panicked(r) == \E i \in DOMAIN logSink : logSink[i].req = r /\ logSink[i].line = "panic"
\* The frames that called WriteHeader or Write on the request's writer.
Writers(c) == {c.w.calls[i].by : i \in DOMAIN c.w.calls}

\* ------------------------------------------------------------- C1
\* C1: a GET /hello whose envelope is serialized and whose handling raises
\* no fault is answered with status 200 and a body that is one envelope
\* with a non-empty data field and no error field.
C1_GetHello ==
    \A r \in Reqs :
        LET c == conn[r]
        IN  Done(c) /\ HelloGet(c) /\ ~Faulted(c)
              /\ ~Happened(c, <<"helloHandler", "marshal failed">>)
            => /\ c.w.status = 200
               /\ Len(Body(c)) = 1
               /\ OnlyField(Body(c)[1], "data")

C1_Witness ==
    \E r \in Reqs :
        /\ Done(conn[r]) /\ HelloGet(conn[r]) /\ ~Faulted(conn[r])
        /\ conn[r].w.status = 200
        /\ Len(Body(conn[r])) = 1 /\ "data" \in DOMAIN Body(conn[r])[1]

\* ------------------------------------------------------------- C2
\* C2: a request to /hello with another method than GET, handled without a
\* fault and with its error envelope serialized, gets a body that is one
\* envelope with a non-empty error field that contains the method's name,
\* and no data field.
C2_OtherMethodBody ==
    \A r \in Reqs :
        LET c == conn[r]
        IN  Done(c) /\ HelloOther(c) /\ ~Faulted(c)
              /\ ~Happened(c, <<"helloHandler", "error marshal failed">>)
            => /\ Len(Body(c)) = 1
               /\ OnlyField(Body(c)[1], "error")
               /\ Contains(Body(c)[1].error, c.method)

C2_Witness ==
    \E r \in Reqs :
        /\ Done(conn[r]) /\ HelloOther(conn[r]) /\ ~Faulted(conn[r])
        /\ Len(Body(conn[r])) = 1 /\ "error" \in DOMAIN Body(conn[r])[1]
        /\ Contains(Body(conn[r])[1].error, "POST")

\* ------------------------------------------------------------- C3
\* C3 (as claimed): a request to /hello with another method than GET is
\* answered with status 501.
C3_Status501 ==
    \A r \in Reqs :
        Done(conn[r]) /\ HelloOther(conn[r]) /\ ~Faulted(conn[r])
        => conn[r].w.status = 501

\* ------------------------------------------------------------- C4
\* C4 (as claimed): when a call below the recovery middleware faults, at
\* whatever point, the response has status 500 and its body is exactly one
\* envelope, whose error field is the fault's description.
C4_Fault500 ==
    \A r \in Reqs :
        LET c == conn[r]
        IN  Done(c) /\ Faulted(c) /\ ~Happened(c, <<"recovery", "marshal failed">>)
            => /\ c.w.status = 500
               /\ Body(c) = <<[error |-> c.fault]>>

\* ------------------------------------------------------------- C5
\* C5 (as claimed): every request that went through the chain has produced
\* exactly one access_log line, a faulted one included.
C5_OneAccessLogLine ==
    \A r \in Reqs : Done(conn[r]) => Cardinality(Lines(r, "access_log")) = 1

\* ------------------------------------------------------------- C6
\* C6 (as claimed): the response of a request is written by one frame only:
\* by the wrapped handler, or by the recovery middleware's deferred
\* function, never by both.
C6_OneWriter ==
    \A r \in Reqs :
        Done(conn[r]) =>
            /\ Writers(conn[r]) # {}
            /\ "recovery" \in Writers(conn[r]) => Writers(conn[r]) = {"recovery"}

\* ------------------------------------------------------------- C7
\* C7 (as claimed): accessLog is the outer wrapper: it is entered before
\* the recovery guard is deferred, and left after the guard has run.
C7_AccessLogOutside ==
    \A r \in Reqs :
        LET c == conn[r]
        IN  Done(c) =>
              /\ \A i \in At(c, "accessLog", "enter"), j \in At(c, "recovery", "defer") : i < j
              /\ \A i \in At(c, "accessLog", "exit") \cup At(c, "accessLog", "unwind"),
                    j \in At(c, "recovery", "deferred") : j < i

\* C7 (amended): recovery is the outer wrapper and accessLog is nested in
\* it, around route dispatch: for every request the recovery guard is
\* deferred before accessLog is entered, accessLog is entered before the
\* mux, and accessLog is left before the guard runs: the events of a
\* request are recovery's entry and defer, accessLog's entry, the events of
\* the frames below, accessLog's exit (by return or by a panic unwinding
\* it), and last the run of recovery's deferred function.
C7_RecoveryOutside ==
    \A r \in Reqs :
        LET t == conn[r].trace
            n == Len(t)
        IN  Done(conn[r]) =>
              /\ n >= 5
              /\ t[1] = <<"recovery", "enter">>
              /\ t[2] = <<"recovery", "defer">>
              /\ t[3] = <<"accessLog", "enter">>
              /\ \E k \in 4..(n - 1) :
                    /\ t[k] \in {<<"accessLog", "exit">>, <<"accessLog", "unwind">>}
                    /\ \A i \in 4..(k - 1) : t[i][1] # "recovery" /\ t[i] # t[k]
                    /\ t[k + 1] = <<"recovery", "deferred">>
                    /\ \A i \in (k + 1)..n : t[i][1] = "recovery"

C7_Witness ==
    \E r \in Reqs :
        /\ Done(conn[r])
        /\ At(conn[r], "accessLog", "exit") # {}
        /\ At(conn[r], "recovery", "deferred") # {}

\* ------------------------------------------------------------- C8
\* C8: a panic raised below the recovery middleware never leaves its frame:
\* no request ends with a panic propagating into net/http; the connection
\* stays open for the next request; and a GET /hello accepted after a
\* faulted request, itself handled without fault, gets 200 and a data
\* envelope.
C8_FaultContained ==
    \A r \in Reqs :
        LET c == conn[r]
        IN  /\ ~c.escaped
            /\ Done(c) => c.panic.nil
            /\ Done(c) /\ r + 1 \in Reqs /\ conn[r + 1].frame = "idle" => ENABLED Accept(r + 1)
            /\ Done(c) /\ c.afterFault /\ HelloGet(c) /\ ~Faulted(c)
                 /\ ~Happened(c, <<"helloHandler", "marshal failed">>)
               => c.w.status = 200 /\ Len(Body(c)) = 1 /\ OnlyField(Body(c)[1], "data")

C8_Witness ==
    \E r \in Reqs :
        /\ Done(conn[r]) /\ conn[r].afterFault /\ HelloGet(conn[r]) /\ ~Faulted(conn[r])
        /\ conn[r].w.status = 200 /\ Len(Body(conn[r])) = 1

\* ------------------------------------------------------------- C9
\* C9 (as claimed): when json.Marshal of the envelope fails in helloHandler,
\* the request is answered with status 500.
C9_MarshalFailure500 ==
    \A r \in Reqs :
        LET c == conn[r]
        IN  Done(c) /\ ~Faulted(c) /\ Happened(c, <<"helloHandler", "marshal failed">>)
            => c.w.status = 500

\* ------------------------------------------------------------- C10
\* C10: every JSON document written to the response of a request to /hello,
\* by helloHandler or by the recovery middleware, is an envelope with
\* exactly one of data and error populated.
C10_OneFieldPopulated ==
    \A r \in Reqs :
        conn[r].path = "/hello" =>
            \A i \in DOMAIN Body(conn[r]) :
                OnlyField(Body(conn[r])[i], "data") \/ OnlyField(Body(conn[r])[i], "error")

C10_Witness ==
    \E r \in Reqs :
        /\ Done(conn[r]) /\ conn[r].path = "/hello"
        /\ Writers(conn[r]) = {"helloHandler", "recovery"}
        /\ Len(Body(conn[r])) = 2

\* ------------------------------------------------------------- C11
\* The response a request gets when it is handled alone and no call faults:
\* the mux's 404 for an unregistered path, the data envelope for GET, the
\* error envelope naming the method for another method, the error envelope
\* of the marshalling error when json.Marshal failed, nothing when the
\* error envelope could not be marshalled either; always with status 200 on
\* the registered route.
AloneStatus(c) == IF c.path = "/hello" THEN 200 ELSE 404

AloneBodies(c) ==
    IF c.path # "/hello" THEN {<<[text |-> <<"404 page not found">>]>>}
    ELSE IF Happened(c, <<"helloHandler", "error marshal failed">>) THEN {<<>>}
    ELSE IF Happened(c, <<"helloHandler", "marshal failed">>)
    THEN {<<[error |-> <<"json: error calling MarshalJSON">>]>>}
    ELSE IF c.method = "GET"
    THEN {<<[data |-> <<"Hello, from service. Today is ", t>>]>> : t \in TimeStamps}
    ELSE {<<[error |-> <<"metod ", "\"", c.method, "\"", " ne podderzhivaetsya">>]>>}

\* C11: under any interleaving of the goroutines, a request handled
\* without fault gets the status and the body it gets when handled alone,
\* whatever the other requests are and wherever they are (one of them may
\* be faulting); and two requests with the same method and path that went
\* through the same events have got the same status and, up to the time
\* read, the same calls on their writers.
C11_Independent ==
    \A r \in Reqs :
        LET c == conn[r]
        IN  /\ Done(c) /\ ~Faulted(c) =>
                 c.w.status = AloneStatus(c) /\ Body(c) \in AloneBodies(c)
            /\ \A q \in Reqs :
                 /\ Done(c) /\ Done(conn[q])
                 /\ c.method = conn[q].method /\ c.path = conn[q].path
                 /\ c.trace = conn[q].trace
                 => c.w.status = conn[q].w.status /\ Len(Body(c)) = Len(Body(conn[q]))

\* Request 2 was handled from start to end, with another method, while
\* request 1 was inside helloHandler, between its WriteHeader and its Write.
C11_Witness ==
    /\ NumRequests >= 2
    /\ conn[1].frame = "helloHandler" /\ conn[1].phase = "write"
    /\ conn[1].path = "/hello" /\ conn[1].w.status = 200
    /\ Done(conn[2]) /\ conn[2].path = "/hello" /\ conn[2].method # conn[1].method
    /\ Len(Body(conn[2])) = 1

\* ------------------------------------------------------------- C12
\* A call of accessLog itself panicked while request c was handled.
AccessLogFaulted(c) == Happened(c, <<"accessLog", "panic">>)

\* C12 (as claimed): a fault raised in accessLog's own code is not caught by
\* the recovery middleware: recovery writes nothing to the response and
\* logs no panic line for it.
C12_AccessLogFaultNotCaught ==
    \A r \in Reqs :
        Done(conn[r]) /\ AccessLogFaulted(conn[r]) =>
            "recovery" \notin Writers(conn[r]) /\ Lines(r, "panic") = {}

\* C12 (amended): a fault raised in accessLog's own code is caught by the
\* recovery middleware, which wraps accessLog: the panic does not leave the
\* chain, recovery's deferred function calls WriteHeader(500) and Write
\* (the error envelope is the last document of the body; the status is 500
\* when nothing had been sent), and one panic line and no access_log line
\* is logged for the request.
C12_AccessLogFaultCaught ==
    \A r \in Reqs :
        LET c == conn[r]
            n == Len(c.w.calls)
        IN  Done(c) /\ AccessLogFaulted(c) =>
              /\ ~c.escaped
              /\ n >= 2
              /\ c.w.calls[n - 1].by = "recovery" /\ c.w.calls[n - 1].code = 500
              /\ c.w.calls[n].by = "recovery" /\ c.w.calls[n].op = "Write"
              /\ ~Happened(c, <<"recovery", "marshal failed">>) =>
                    Len(Body(c)) >= 1 /\ Body(c)[Len(Body(c))] = [error |-> c.fault]
              /\ n = 2 => c.w.status = 500
              /\ Panicked(r) /\ ~Logged(r)
              /\ \A i, j \in DOMAIN logSink : logSink[i].req = logSink[j].req => i = j

\* accessLog's log.Printf panicked after the wrapped handler had returned.
C12_Witness ==
    \E r \in Reqs :
        /\ Done(conn[r]) /\ AccessLogFaulted(conn[r])
        /\ Happened(conn[r], <<"helloHandler", "exit">>)
        /\ Lines(r, "panic") # {}
        /\ Len(Body(conn[r])) = 2

\* ------------------------------------------------------------- C13
\* C13 (as claimed): before the first bytes of a body are written, the
\* status header has been set by a call of WriteHeader.
C13_HeaderBeforeBody ==
    \A r \in Reqs :
        LET calls == conn[r].w.calls
        IN  \A i \in DOMAIN calls :
                calls[i].op = "Write" /\ calls[i].bytes # <<>> =>
                    \E j \in 1..(i - 1) : calls[j].op = "WriteHeader"

\* ------------------------------------------------------------- C14
\* C14: accessLog never calls WriteHeader or Write; it logs its line when
\* next.ServeHTTP has returned, in a step that leaves the response as it
\* is; and once the line is logged the response of the request does not
\* change any more.
C14_LogAfterWrites ==
    /\ [](\A r \in Reqs : "accessLog" \notin Writers(conn[r]))
    /\ [][\A r \in Reqs :
            /\ Logged(r) => conn'[r].w = conn[r].w
            /\ ~Logged(r) /\ Logged(r)' =>
                 /\ conn[r].frame = "accessLog" /\ conn[r].phase = "return"
                 /\ conn'[r].w = conn[r].w
                 /\ conn[r].w.calls # <<>>]_vars

C14_Witness ==
    \E r \in Reqs :
        /\ Logged(r) /\ Done(conn[r])
        /\ Writers(conn[r]) = {"helloHandler"}
        /\ Len(Body(conn[r])) = 1

\* ------------------------------------------------------------- C15
\* C15: when no call of the wrapped handler faulted, recovery's deferred
\* function has called neither WriteHeader nor Write and has logged
\* nothing: the calls on the writer are the wrapped handler's, and the
\* status and the body are those the wrapped handler produces.
C15_RecoveryTransparent ==
    \A r \in Reqs :
        LET c == conn[r]
        IN  Done(c) /\ ~Faulted(c) =>
              /\ Happened(c, <<"recovery", "deferred">>)
              /\ Writers(c) \in {{"helloHandler"}, {"mux"}}
              /\ Lines(r, "panic") = {}
              /\ c.w.status = AloneStatus(c) /\ Body(c) \in AloneBodies(c)

C15_Witness ==
    \E r \in Reqs :
        /\ Done(conn[r]) /\ ~Faulted(conn[r])
        /\ Happened(conn[r], <<"recovery", "deferred">>)
        /\ conn[r].w.status = 200 /\ Len(Body(conn[r])) = 1

\* ------------------------------------------------------------- C16
\* The handler accessLog wraps was called and returned without a panic.
NextReturned(c) ==
    /\ Happened(c, <<"mux", "enter">>)
    /\ ~Happened(c, <<"mux", "panic">>)
    /\ ~Happened(c, <<"helloHandler", "panic">>)

HelloCalls(c, op) ==
    {i \in DOMAIN c.w.calls : c.w.calls[i].by = "helloHandler" /\ c.w.calls[i].op = op}

\* C17: an invocation of helloHandler that returned without a fault in it
\* has called Write once, from its deferred function, and WriteHeader at
\* most once: once, with 200, when err was nil (GET, envelope marshalled),
\* not at all on the error paths, where the status variable holds 501 or
\* 500 and the status sent is 200 all the same.
C17_HelloHandlerWrites ==
    \A r \in Reqs :
        LET c == conn[r]
            ok == c.method = "GET" /\ ~Happened(c, <<"helloHandler", "marshal failed">>)
        IN  Happened(c, <<"helloHandler", "exit">>) /\ ~Happened(c, <<"helloHandler", "panic">>)
            => /\ Cardinality(HelloCalls(c, "Write")) = 1
               /\ Cardinality(HelloCalls(c, "WriteHeader")) = IF ok THEN 1 ELSE 0
               /\ \A i \in HelloCalls(c, "WriteHeader") : c.w.calls[i].code = 200
               /\ c.w.calls[1].by = "helloHandler"
               /\ c.w.status = 200
               /\ ~ok => c.status \in {500, 501}

C17_Witness ==
    \E r \in Reqs :
        /\ Happened(conn[r], <<"helloHandler", "exit">>)
        /\ ~Happened(conn[r], <<"helloHandler", "panic">>)
        /\ conn[r].method = "POST" /\ conn[r].status = 501 /\ conn[r].w.status = 200
        /\ HelloCalls(conn[r], "WriteHeader") = {}

====
